---- MODULE Spec2Model ----
(***************************************************************************)
(* Entity resolution of LoadOCDModelsCommand                               *)
(* (calaccess_processed/management/commands/__init__.py): Persons,         *)
(* their identifiers and Candidacies in the relational store, and the      *)
(* lookups that read it.  Strings are sequences of one-character strings,  *)
(* so that split, join, strip and upper are computed, not assumed.         *)
(***************************************************************************)
EXTENDS Integers, Sequences, FiniteSets, TLC

VARIABLES
    persons,      \* the Person table, each row with its PersonIdentifier rows
    candidacies,  \* the Candidacy rows of the contest
    nextId,       \* the next primary key the store hands out
    orgs,         \* the Organization table, each row with its other names and identifiers
    filerTypes,   \* the FilerToFilerTypeCd rows of the raw data
    corrections,  \* the list of candidate party corrections
    rawVersions,        \* the RawDataVersion table
    processedVersions,  \* the ProcessedDataVersion table
    cache,              \* the files of the scraper's cache directory
    requests,           \* the HTTP requests made so far, in order
    force_download,     \* ScrapeCommand.force_download
    update_cache,       \* ScrapeCommand.update_cache
    last,         \* the last call: its arguments and what it gave back
    pre,          \* the store as the last call found it
    ncalls        \* calls made so far

vars == <<persons, candidacies, nextId, orgs, filerTypes, corrections,
          rawVersions, processedVersions, cache, requests, force_download,
          update_cache, last, pre, ncalls>>

\* ------------------------------------------------------------------ bounds

MaxPersons == 2
MaxCandidacies == 1
MaxCalls == 2

\* ----------------------------------------------------------------- strings

Str_D   == <<"D">>
Str_DJ  == <<"D", ",", " ", "J">>
Str_JD  == <<"J", " ", "D">>
Str_Empty == <<>>

RECURSIVE Split(_, _)
Split(s, sep) ==
    IF \E i \in 1..Len(s) : s[i] = sep
    THEN LET i == CHOOSE k \in 1..Len(s) :
                      s[k] = sep /\ \A j \in 1..(k - 1) : s[j] # sep
         IN  <<SubSeq(s, 1, i - 1)>> \o Split(SubSeq(s, i + 1, Len(s)), sep)
    ELSE <<s>>

Reverse(q) == [i \in 1..Len(q) |-> q[Len(q) + 1 - i]]

RECURSIVE Join(_, _)
Join(parts, sep) ==
    IF Len(parts) = 0 THEN <<>>
    ELSE IF Len(parts) = 1 THEN parts[1]
    ELSE parts[1] \o sep \o Join(Tail(parts), sep)

RECURSIVE LStrip(_)
LStrip(s) == IF Len(s) > 0 /\ s[1] = " " THEN LStrip(Tail(s)) ELSE s

RECURSIVE RStrip(_)
RStrip(s) ==
    IF Len(s) > 0 /\ s[Len(s)] = " " THEN RStrip(SubSeq(s, 1, Len(s) - 1)) ELSE s

Strip(s) == RStrip(LStrip(s))

\* ' '.join(reversed(name.split(','))).strip()
FlipName(name) == Strip(Join(Reverse(Split(name, ",")), <<" ">>))

\* ------------------------------------------------------------------- store

None == "None"
Scheme == "calaccess_filer_id"
FilerIds == {"1", "2"}
IdentKeys == {<<Scheme, "1">>, <<Scheme, "2">>, <<"other", "1">>}
FilerKey(filer_id) == <<Scheme, filer_id>>

RECURSIVE SumOver(_, _)
SumOver(f, keys) ==
    IF keys = {} THEN 0
    ELSE LET k == CHOOSE x \in keys : TRUE IN f[k] + SumOver(f, keys \ {k})

\* person.identifiers.count()
IdentCount(p) == SumOver(p.identifiers, IdentKeys)

NoIdentifiers == [k \in IdentKeys |-> 0]

Store == [persons |-> persons, candidacies |-> candidacies, nextId |-> nextId]

PersonById(ps, id) == CHOOSE p \in ps : p.id = id

\* Person.objects.filter(identifiers__scheme='calaccess_filer_id',
\*                       identifiers__identifier=filer_id)
PersonsWithFiler(ps, filer_id) ==
    {p \in ps : p.identifiers[FilerKey(filer_id)] > 0}

\* The rows of that query: the join gives a Person once per matching identifier.
FilerRows(ps, filer_id) ==
    LET m == PersonsWithFiler(ps, filer_id)
    IN  SumOver([id \in {p.id : p \in m} |->
                    PersonById(m, id).identifiers[FilerKey(filer_id)]],
                {p.id : p \in m})

\* if filer_id:
Truthy(filer_id) == filer_id # None /\ filer_id # ""

\* opencivicdata.merge.merge(survivor, other): what hangs on other (its
\* identifiers, its candidacies) moves to survivor, and other is deleted.
\* A row already deleted (the same Person met again in the join) has nothing left.
merge(st, sid, oid) ==
    IF ~(\E p \in st.persons : p.id = oid) THEN st
    ELSE LET s == PersonById(st.persons, sid)
             o == PersonById(st.persons, oid)
             s2 == [s EXCEPT !.identifiers =
                       [k \in IdentKeys |-> s.identifiers[k] + o.identifiers[k]]]
         IN  [st EXCEPT
                !.persons = (st.persons \ {s, o}) \cup {s2},
                !.candidacies = {IF c.person = oid THEN [c EXCEPT !.person = sid]
                                 ELSE c : c \in st.candidacies}]

RECURSIVE MergeAll(_, _, _)
MergeAll(st, sid, oids) ==
    IF oids = {} THEN st
    ELSE LET o == CHOOSE x \in oids : TRUE
         IN  MergeAll(merge(st, sid, o), sid, oids \ {o})

\* The test that sends merge_persons to the debugger instead of merging.
NamesDiffer(s, o) == s.name # o.name \/ s.sort_name # o.sort_name

\* if survivor.identifiers.count() > 1:
\*     for i in survivor.identifiers.filter(scheme='calaccess_filer_id')[1:]: i.delete()
\* keep is the row the unordered query gives first.
DedupeIdentifiers(st, sid, keep) ==
    LET s == PersonById(st.persons, sid)
        s2 == [s EXCEPT !.identifiers =
                  [k \in IdentKeys |->
                      IF k[1] = Scheme THEN (IF k = keep THEN 1 ELSE 0)
                      ELSE s.identifiers[k]]]
    IN  IF IdentCount(s) > 1
        THEN [st EXCEPT !.persons = (st.persons \ {s}) \cup {s2}]
        ELSE st

\* merge_persons(filer_id): every outcome the call can have.  The query is
\* unordered, so any matching Person may be persons[0].  Where the names differ
\* the code stops in ipdb.set_trace(): the run either goes on (nothing merged
\* for that Person) or ends there with an exception, the merges made before it
\* kept (the store is in autocommit).
merge_persons(st, filer_id) ==
    LET rows == PersonsWithFiler(st.persons, filer_id)
    IN  IF rows = {}
        THEN {[store |-> st, outcome |-> "raised", result |-> 0]}
        ELSE UNION {
               LET others == rows \ {s}
                   differ == {o \in others : NamesDiffer(s, o)}
                   same   == others \ differ
                   merged == MergeAll(st, s.id, {o.id : o \in same})
                   sm     == PersonById(merged.persons, s.id)
               IN  {[store |-> DedupeIdentifiers(merged, s.id, keep),
                     outcome |-> "returned", result |-> s.id]
                       : keep \in {k \in IdentKeys :
                                     k[1] = Scheme /\ sm.identifiers[k] > 0}}
                   \cup
                   (IF differ = {} THEN {}
                    ELSE {[store |-> MergeAll(st, s.id, {o.id : o \in done}),
                           outcome |-> "raised", result |-> 0]
                             : done \in SUBSET same})
               : s \in rows }

\* LookupRows with the lookup by filer_id left out.
LookupRows_Skipped(st, filer_id) == 0

\* if filer_id: ... Person.objects.get(...): the rows the lookup sees, none
\* when no filer_id is given.
LookupRows(st, filer_id) ==
    IF Truthy(filer_id) THEN FilerRows(st.persons, filer_id) ELSE 0

\* NewPerson with the flipped name stored as sort_name and the name as given.
NewPerson_Swapped(st, name, filer_id) ==
    [id |-> st.nextId, name |-> name, sort_name |-> FlipName(name),
     identifiers |->
         IF Truthy(filer_id)
         THEN [NoIdentifiers EXCEPT ![FilerKey(filer_id)] = 1]
         ELSE NoIdentifiers]

\* Person.objects.create(sort_name=name, name=' '.join(split_name).strip()),
\* and person.identifiers.create(...) if filer_id.
NewPerson(st, name, filer_id) ==
    [id |-> st.nextId, name |-> FlipName(name), sort_name |-> name,
     identifiers |->
         IF Truthy(filer_id)
         THEN [NoIdentifiers EXCEPT ![FilerKey(filer_id)] = 1]
         ELSE NoIdentifiers]

\* get_or_create_person without the lookup by filer_id: a Person is created
\* on every call.
get_or_create_person_Create(st, name, filer_id) ==
    LET new == NewPerson(st, name, filer_id)
    IN  {[store |-> [st EXCEPT !.persons = @ \cup {new}, !.nextId = @ + 1],
          outcome |-> "returned", person |-> new.id, created |-> TRUE]}

\* get_or_create_person(name, filer_id): every outcome the call can have.
get_or_create_person(st, name, filer_id) ==
    LET n == LookupRows(st, filer_id)
        new == NewPerson(st, name, filer_id)
    IN  IF n = 1
        THEN {[store |-> st, outcome |-> "returned",
               person |-> (CHOOSE p \in PersonsWithFiler(st.persons, filer_id) : TRUE).id,
               created |-> FALSE]}
        ELSE IF n > 1
        THEN {[store |-> m.store, outcome |-> m.outcome, person |-> m.result,
               created |-> FALSE] : m \in merge_persons(st, filer_id)}
        ELSE {[store |-> [st EXCEPT !.persons = @ \cup {new}, !.nextId = @ + 1],
               outcome |-> "returned", person |-> new.id, created |-> TRUE]}

\* contest_obj.posts.all()[0].post
Posts == {"p1", "p2"}
FirstPost == "p1"
Statuses == {"qualified", "withdrawn"}

\* if candidacy.registration_status != registration_status: ... candidacy.save()
SetStatus(st, cid, status) ==
    [st EXCEPT !.candidacies =
        {IF c.id = cid THEN [c EXCEPT !.registration_status = status] ELSE c
            : c \in st.candidacies}]

\* contest_obj.candidacies.create(person=, post=, candidate_name=)
CreateCandidacy(st, pid, person_name) ==
    [st EXCEPT
        !.candidacies = @ \cup {[id |-> st.nextId, person |-> pid,
                                 post |-> FirstPost, candidate_name |-> person_name,
                                 registration_status |-> ""]},
        !.nextId = @ + 1]

\* The lookup of the filer_id branch: candidacies.get_or_create(person=, post=,
\* candidate_name=) matches on all three.
CandidaciesOfPerson(st, pid, person_name) ==
    {c \in st.candidacies :
        c.person = pid /\ c.post = FirstPost /\ c.candidate_name = person_name}

\* The lookup of the other branch: candidacies.get(post=, person__sort_name=).
CandidaciesByName(st, person_name) ==
    {c \in st.candidacies :
        c.post = FirstPost /\ PersonById(st.persons, c.person).sort_name = person_name}

Raised(st) == [store |-> st, outcome |-> "raised", candidacy |-> 0, created |-> FALSE]

\* What get_or_create_candidacy does once it has looked for the Candidacy of pid:
\* several is MultipleObjectsReturned, one is returned, none is created.
GetOrCreateIn(st, found, pid, person_name, status) ==
    IF Cardinality(found) > 1 THEN Raised(st)
    ELSE IF Cardinality(found) = 1
    THEN LET c == CHOOSE x \in found : TRUE
         IN  [store |-> SetStatus(st, c.id, status), outcome |-> "returned",
              candidacy |-> c.id, created |-> FALSE]
    ELSE [store |-> SetStatus(CreateCandidacy(st, pid, person_name), st.nextId, status),
          outcome |-> "returned", candidacy |-> st.nextId, created |-> TRUE]

\* get_or_create_candidacy(contest_obj, person_name, registration_status, filer_id):
\* every outcome the call can have.
get_or_create_candidacy(st, person_name, status, filer_id) ==
    IF Truthy(filer_id)
    THEN {IF pr.outcome = "raised" THEN Raised(pr.store)
          ELSE GetOrCreateIn(pr.store,
                             CandidaciesOfPerson(pr.store, pr.person, person_name),
                             pr.person, person_name, status)
            : pr \in get_or_create_person(st, person_name, filer_id)}
    ELSE LET found == CandidaciesByName(st, person_name)
         IN  IF Cardinality(found) > 1
             \* ipdb.set_trace(), and then candidacy is unbound at line 575
             THEN {Raised(st)}
             ELSE IF Cardinality(found) = 1
             THEN {GetOrCreateIn(st, found, 0, person_name, status)}
             ELSE {GetOrCreateIn(pr.store, {}, pr.person, person_name, status)
                     : pr \in get_or_create_person(st, person_name, None)}

\* ----------------------------------------------------------------- actions

NoCall == [op |-> "none"]

MergePersons ==
    /\ ncalls < MaxCalls
    /\ \E filer_id \in FilerIds : \E out \in merge_persons(Store, filer_id) :
         /\ persons' = out.store.persons
         /\ candidacies' = out.store.candidacies
         /\ nextId' = out.store.nextId
         /\ last' = [op |-> "merge_persons", filer_id |-> filer_id,
                     outcome |-> out.outcome, result |-> out.result]
         /\ pre' = Store
         /\ ncalls' = ncalls + 1
         /\ UNCHANGED <<orgs, filerTypes, corrections>>
         /\ UNCHANGED <<rawVersions, processedVersions>>
         /\ UNCHANGED <<cache, requests, force_download, update_cache>>

SortNames == {Str_Empty, Str_D, Str_DJ}
FilerArgs == {None, ""} \cup FilerIds

GetOrCreatePersonCall ==
    \E name \in SortNames, filer_id \in FilerArgs :
    \E out \in get_or_create_person(Store, name, filer_id) :
      /\ persons' = out.store.persons
      /\ candidacies' = out.store.candidacies
      /\ nextId' = out.store.nextId
      /\ last' = [op |-> "get_or_create_person", name |-> name,
                  filer_id |-> filer_id, outcome |-> out.outcome,
                  result |-> out.person, created |-> out.created]
      /\ pre' = Store
      /\ ncalls' = ncalls + 1
      /\ UNCHANGED <<orgs, filerTypes, corrections>>
      /\ UNCHANGED <<rawVersions, processedVersions>>
      /\ UNCHANGED <<cache, requests, force_download, update_cache>>

GetOrCreatePerson == ncalls < MaxCalls /\ GetOrCreatePersonCall

GetOrCreateCandidacyCall ==
    \E person_name \in SortNames, status \in Statuses, filer_id \in FilerArgs :
    \E out \in get_or_create_candidacy(Store, person_name, status, filer_id) :
      /\ persons' = out.store.persons
      /\ candidacies' = out.store.candidacies
      /\ nextId' = out.store.nextId
      /\ last' = [op |-> "get_or_create_candidacy", name |-> person_name,
                  status |-> status, filer_id |-> filer_id,
                  outcome |-> out.outcome, result |-> out.candidacy,
                  created |-> out.created]
      /\ pre' = Store
      /\ ncalls' = ncalls + 1
      /\ UNCHANGED <<orgs, filerTypes, corrections>>
      /\ UNCHANGED <<rawVersions, processedVersions>>
      /\ UNCHANGED <<cache, requests, force_download, update_cache>>

GetOrCreateCandidacy == ncalls < MaxCalls /\ GetOrCreateCandidacyCall

\* -------------------------------------------------------------- the stores

\* The identifier rows a Person is loaded with: none, one, or two of them, the
\* same filer_id twice, two filer_ids, or a filer_id and another scheme's.
IdentShapes ==
    {b \in [IdentKeys -> 0..2] :
        /\ SumOver(b, IdentKeys) <= 2
        /\ b[<<Scheme, "2">>] < 2 /\ b[<<"other", "1">>] < 2
        /\ b[<<Scheme, "2">>] = 1 /\ SumOver(b, IdentKeys) = 2 => b[<<Scheme, "1">>] = 1}

\* The same, of Persons loaded with one identifier at most.
SingleIdentShapes == {b \in IdentShapes : SumOver(b, IdentKeys) <= 1}

\* (sort_name, name) as loaded: flipped as get_or_create_person does, or not.
NameShapes == {<<Str_D, Str_D>>, <<Str_DJ, Str_JD>>, <<Str_DJ, Str_D>>}

InitPersons(n, names, idents) ==
    {[id |-> i, sort_name |-> names[i][1], name |-> names[i][2],
      identifiers |-> idents[i]] : i \in 1..n}

InitCandidacies(n, k, who, post, cname) ==
    {[id |-> n + j, person |-> who[j], post |-> post[j],
      candidate_name |-> cname[j], registration_status |-> "qualified"]
        : j \in 1..k}

\* A store loaded by earlier runs: up to MaxPersons Persons with their
\* identifiers, and up to MaxCandidacies Candidacies of theirs.
InitStore(shapes, posts, cnames) ==
    \E n \in 0..MaxPersons :
    \E names \in [1..n -> NameShapes], idents \in [1..n -> shapes] :
    \E k \in 0..(IF n = 0 THEN 0 ELSE MaxCandidacies) :
    \E who \in [1..k -> 1..n], post \in [1..k -> posts],
       cname \in [1..k -> cnames] :
        /\ persons = InitPersons(n, names, idents)
        /\ candidacies = InitCandidacies(n, k, who, post, cname)
        /\ nextId = n + k + 1
        /\ last = NoCall
        /\ pre = [persons |-> {}, candidacies |-> {}, nextId |-> 1]
        /\ ncalls = 0
        /\ rawVersions = {}
        /\ processedVersions = {}
        /\ cache = {}
        /\ requests = <<>>
        /\ force_download = FALSE
        /\ update_cache = TRUE
        /\ orgs = {}
        /\ filerTypes = {}
        /\ corrections = <<>>

InitMerge == InitStore(IdentShapes, Posts, {Str_D, Str_DJ})
NextMerge == MergePersons
SpecMerge == InitMerge /\ [][NextMerge]_vars

\* A call reads nothing but the store, and the initial stores are every loaded
\* store: the first call from each is every call.
FirstCall == ncalls = 0

\* get_or_create_person reads no Candidacy: one shape of them is loaded.
InitPerson == InitStore(IdentShapes, {FirstPost}, {Str_D})
NextPerson == FirstCall /\ GetOrCreatePerson
SpecPerson == InitPerson /\ [][NextPerson]_vars

InitCandidacy == InitStore(SingleIdentShapes, Posts, {Str_D, Str_DJ})
NextCandidacy == GetOrCreateCandidacy
SpecCandidacy == InitCandidacy /\ [][NextCandidacy]_vars

\* The store before anything is loaded: no Person, no Candidacy.
InitFromEmpty ==
    /\ persons = {}
    /\ candidacies = {}
    /\ nextId = 1
    /\ orgs = {}
    /\ filerTypes = {}
    /\ corrections = <<>>
    /\ rawVersions = {}
    /\ processedVersions = {}
    /\ cache = {}
    /\ requests = <<>>
    /\ force_download = FALSE
    /\ update_cache = TRUE
    /\ last = NoCall
    /\ pre = [persons |-> {}, candidacies |-> {}, nextId |-> 1]
    /\ ncalls = 0
\* Calls follow one another for as long as the load runs.
MaxSequence == 3
NextFromEmpty ==
    \/ ncalls < MaxSequence /\ GetOrCreatePersonCall
    \/ ncalls < MaxSequence /\ GetOrCreateCandidacyCall
SpecFromEmpty == InitFromEmpty /\ [][NextFromEmpty]_vars

\* ----------------------------------------------------------------- parties

\* call_command('loadparties'): the parties of the state, UNKNOWN among them.
loadparties(os) ==
    os \cup
    {[id |-> 101, name |-> "UNKNOWN", classification |-> "party",
      other_names |-> {"UNK"}, identifiers |-> {16011}],
     [id |-> 102, name |-> "DEMOCRATIC", classification |-> "party",
      other_names |-> {"DEM"}, identifiers |-> {16002}],
     [id |-> 103, name |-> "NO PARTY PREFERENCE", classification |-> "party",
      other_names |-> {"NPP"}, identifiers |-> {16012}]}

\* party_q = Organization.objects.filter(classification='party')
party_q(os) == {o \in os : o.classification = "party"}

\* QuerySet.get(): the one row, or DoesNotExist, or MultipleObjectsReturned.
Get(rows) ==
    IF Cardinality(rows) = 1 THEN [outcome |-> "returned", result |-> (CHOOSE o \in rows : TRUE).id]
    ELSE IF rows = {} THEN [outcome |-> "DoesNotExist", result |-> 0]
    ELSE [outcome |-> "raised", result |-> 0]

\* Organization.objects.get(other_names__name=party): every Organization is
\* searched, not only party_q.
ByOtherName(os, party) == {o \in os : party \in o.other_names}

\* Organization.objects.get(name='UNKNOWN'); nothing catches its DoesNotExist.
GetUnknown(os) ==
    LET g == Get({o \in os : o.name = "UNKNOWN"})
    IN  IF g.outcome = "returned" THEN g ELSE [outcome |-> "raised", result |-> 0]

\* lookup_party(party): the store it leaves, and what it gives back.
lookup_party(os, party) ==
    LET loaded == IF party_q(os) = {} THEN loadparties(os) ELSE os
        byName == Get({o \in party_q(loaded) : o.name = party})
        byOther == Get(ByOtherName(loaded, party))
        got == IF byName.outcome # "DoesNotExist" THEN byName
               ELSE IF byOther.outcome # "DoesNotExist" THEN byOther
               ELSE GetUnknown(loaded)
    IN  [orgs |-> loaded, outcome |-> got.outcome, result |-> got.result]

INDEPENDENT == 16007
NON_PARTISAN == 16009
NO_PARTY_PREFERENCE == 16012

\* if party_cd in [16007, 16009]: party_cd = 16012
TransformPartyCd(party_cd) ==
    IF party_cd \in {INDEPENDENT, NON_PARTISAN} THEN NO_PARTY_PREFERENCE ELSE party_cd

\* EffectiveRecords without the effect_dt__lte filter.
EffectiveRecords_AnyDate(fts, filer_id, election_date) ==
    {r \in fts : r.filer_id = filer_id}

\* FilerToFilerTypeCd.objects.filter(filer_id=filer_id, effect_dt__lte=election_date)
EffectiveRecords(fts, filer_id, election_date) ==
    {r \in fts : r.filer_id = filer_id /\ r.effect_dt <= election_date}

\* .latest('effect_dt'): a row of the greatest effect_dt, any of them on a tie.
Latest(rows) == {r \in rows : \A q \in rows : q.effect_dt <= r.effect_dt}

\* Organization.objects.get(identifiers__identifier=party_cd)
ByIdentifier(os, party_cd) == {o \in os : party_cd \in o.identifiers}

\* get_party_for_filer_id(filer_id, election_date): every outcome it can have.
get_party_for_filer_id(os, fts, filer_id, election_date) ==
    LET recs == EffectiveRecords(fts, filer_id, election_date)
    IN  IF recs = {} THEN {GetUnknown(os)}
        ELSE {LET g == Get(ByIdentifier(os, TransformPartyCd(r.party_cd)))
              IN  IF g.outcome = "DoesNotExist" THEN GetUnknown(os) ELSE g
                : r \in Latest(recs)}

PartyNames == {"DEMOCRATIC", "DEM", "GREEN", "UNKNOWN"}

LookupParty ==
    /\ ncalls < MaxCalls
    /\ \E party \in PartyNames :
         LET out == lookup_party(orgs, party)
         IN  /\ orgs' = out.orgs
             /\ last' = [op |-> "lookup_party", party |-> party,
                         outcome |-> out.outcome, result |-> out.result]
    /\ pre' = [orgs |-> orgs, filerTypes |-> filerTypes]
    /\ ncalls' = ncalls + 1
    /\ UNCHANGED <<persons, candidacies, nextId, filerTypes, corrections>>
    /\ UNCHANGED <<rawVersions, processedVersions>>
    /\ UNCHANGED <<cache, requests, force_download, update_cache>>

MaxDate == 2
Dates == 1..MaxDate

GetPartyForFilerId ==
    /\ ncalls < MaxCalls
    /\ \E filer_id \in FilerIds, election_date \in Dates :
       \E out \in get_party_for_filer_id(orgs, filerTypes, filer_id, election_date) :
         last' = [op |-> "get_party_for_filer_id", filer_id |-> filer_id,
                  election_date |-> election_date,
                  outcome |-> out.outcome, result |-> out.result]
    /\ pre' = [orgs |-> orgs, filerTypes |-> filerTypes]
    /\ ncalls' = ncalls + 1
    /\ UNCHANGED <<persons, candidacies, nextId, orgs, filerTypes, corrections>>
    /\ UNCHANGED <<rawVersions, processedVersions>>
    /\ UNCHANGED <<cache, requests, force_download, update_cache>>

MaxOrgs == 1
MaxFilerTypes == 2

\* Organizations other than the loaded parties: the bodies handle() creates,
\* and whatever else earlier loads left, a party of a loaded name among them.
OrgShapes ==
    [name : {"DEMOCRATIC", "GREEN COMMITTEE"},
     classification : {"party", "executive"},
     other_names : {{}, {"DEM"}, {"GREEN"}},
     identifiers : {{}, {16002}, {16012}}]

\* The same for get_party_for_filer_id, which reads identifiers and the name
\* UNKNOWN only.
IdentifiedOrgShapes ==
    {o \in OrgShapes : o.name = "GREEN COMMITTEE" /\ o.other_names = {}}

PartyCds == {0, 16002, INDEPENDENT, NO_PARTY_PREFERENCE}

FilerTypeRows == [filer_id : FilerIds, effect_dt : Dates, party_cd : PartyCds]

\* The subsets of S of at most k elements.
SubsetsUpTo(S, k) == UNION {{{f[i] : i \in 1..m} : f \in [1..m -> S]} : m \in 0..k}

InitOrgs(shapes, maxRows) ==
    \E n \in 0..MaxOrgs : \E shape \in [1..n -> shapes] : \E loaded \in BOOLEAN :
    \E fts \in SubsetsUpTo(FilerTypeRows, maxRows) :
        \* parties come from loadparties: there is none before it has run
        /\ loaded \/ \A i \in 1..n : shape[i].classification # "party"
        /\ LET extra == {[id |-> i, name |-> shape[i].name,
                          classification |-> shape[i].classification,
                          other_names |-> shape[i].other_names,
                          identifiers |-> shape[i].identifiers] : i \in 1..n}
           IN  orgs = IF loaded THEN loadparties(extra) ELSE extra
        /\ filerTypes = fts
        /\ corrections = <<>>
        /\ persons = {}
        /\ candidacies = {}
        /\ nextId = 1
        /\ last = NoCall
        /\ pre = [orgs |-> {}, filerTypes |-> {}]
        /\ ncalls = 0
        /\ rawVersions = {}
        /\ processedVersions = {}
        /\ cache = {}
        /\ requests = <<>>
        /\ force_download = FALSE
        /\ update_cache = TRUE

InitLookupParty == InitOrgs(OrgShapes, 0)
NextLookupParty == LookupParty
SpecLookupParty == InitLookupParty /\ [][NextLookupParty]_vars

InitFilerParty == InitOrgs(IdentifiedOrgShapes, MaxFilerTypes)
NextFilerParty == FirstCall /\ GetPartyForFilerId
SpecFilerParty == InitFilerParty /\ [][NextFilerParty]_vars

\* ------------------------------------------------------------- corrections

\* [i[-1] for i in corrections if i[0] == candidate_name and i[1] == year and
\*  i[2] == election_type and i[3] == office]
RECURSIVE Filtered(_, _, _, _, _)
Filtered(corr, candidate_name, year, election_type, office) ==
    IF corr = <<>> THEN <<>>
    ELSE LET i == Head(corr)
             rest == Filtered(Tail(corr), candidate_name, year, election_type, office)
         IN  IF /\ i[1] = candidate_name
                /\ i[2] = year
                /\ i[3] = election_type
                /\ i[4] = office
             THEN <<i[Len(i)]>> \o rest
             ELSE rest

\* lookup_candidate_party_correction raising only when the matching entries
\* name different parties.
lookup_candidate_party_correction_Distinct(corr, candidate_name, year, election_type, office) ==
    LET filtered == Filtered(corr, candidate_name, year, election_type, office)
        parties == {filtered[k] : k \in 1..Len(filtered)}
    IN  IF Cardinality(parties) > 1 THEN [outcome |-> "raised", party |-> None]
        ELSE IF Len(filtered) = 0 THEN [outcome |-> "returned", party |-> None]
        ELSE [outcome |-> "returned", party |-> filtered[1]]

\* lookup_candidate_party_correction(candidate_name, year, election_type, office)
lookup_candidate_party_correction(corr, candidate_name, year, election_type, office) ==
    LET filtered == Filtered(corr, candidate_name, year, election_type, office)
    IN  IF Len(filtered) > 1 THEN [outcome |-> "raised", party |-> None]
        ELSE IF Len(filtered) = 0 THEN [outcome |-> "returned", party |-> None]
        ELSE [outcome |-> "returned", party |-> filtered[1]]

CandidateNames == {"DOE, J", "ROE, R"}
CorrectionYears == {2014, 2016}
ElectionTypes == {"PRIMARY", "GENERAL"}
Offices == {"GOVERNOR", "ASSEMBLY 01"}
Parties == {"DEMOCRATIC", "REPUBLICAN"}

LookupCandidatePartyCorrection ==
    /\ ncalls < MaxCalls
    /\ \E candidate_name \in CandidateNames, year \in CorrectionYears,
          election_type \in ElectionTypes, office \in Offices :
         LET out == lookup_candidate_party_correction(
                        corrections, candidate_name, year, election_type, office)
         IN  last' = [op |-> "lookup_candidate_party_correction",
                      candidate_name |-> candidate_name, year |-> year,
                      election_type |-> election_type, office |-> office,
                      outcome |-> out.outcome, party |-> out.party]
    /\ pre' = [corrections |-> corrections]
    /\ ncalls' = ncalls + 1
    /\ UNCHANGED <<persons, candidacies, nextId, orgs, filerTypes, corrections>>
    /\ UNCHANGED <<rawVersions, processedVersions>>
    /\ UNCHANGED <<cache, requests, force_download, update_cache>>

MaxCorrections == 2

CorrectionEntries ==
    {<<n, y, t, o, p>> : n \in CandidateNames, y \in CorrectionYears,
                         t \in ElectionTypes, o \in Offices, p \in Parties}

InitCorrections ==
    /\ corrections \in UNION {[1..m -> CorrectionEntries] : m \in 0..MaxCorrections}
    /\ persons = {}
    /\ candidacies = {}
    /\ nextId = 1
    /\ orgs = {}
    /\ filerTypes = {}
    /\ last = NoCall
    /\ pre = [corrections |-> <<>>]
    /\ ncalls = 0
    /\ rawVersions = {}
    /\ processedVersions = {}
    /\ cache = {}
    /\ requests = <<>>
    /\ force_download = FALSE
    /\ update_cache = TRUE

NextCorrections == FirstCall /\ LookupCandidatePartyCorrection
SpecCorrections == InitCorrections /\ [][NextCorrections]_vars

\* ---------------------------------------------------------- election dates

LowerLetters == <<"a", "b", "c", "d", "e", "f", "g", "h", "i", "j", "k", "l", "m",
                  "n", "o", "p", "q", "r", "s", "t", "u", "v", "w", "x", "y", "z">>
UpperLetters == <<"A", "B", "C", "D", "E", "F", "G", "H", "I", "J", "K", "L", "M",
                  "N", "O", "P", "Q", "R", "S", "T", "U", "V", "W", "X", "Y", "Z">>

\* str.upper()
Upper(s) ==
    [i \in 1..Len(s) |->
        IF \E k \in 1..Len(LowerLetters) : LowerLetters[k] = s[i]
        THEN UpperLetters[CHOOSE k \in 1..Len(LowerLetters) : LowerLetters[k] = s[i]]
        ELSE s[i]]

Str_PRIMARY == <<"P", "R", "I", "M", "A", "R", "Y">>
Str_GENERAL == <<"G", "E", "N", "E", "R", "A", "L">>

\* datetime.date: the proleptic Gregorian calendar.
IsLeap(y) == y % 4 = 0 /\ (y % 100 # 0 \/ y % 400 = 0)

DaysInMonth(y, m) ==
    IF m = 2 THEN (IF IsLeap(y) THEN 29 ELSE 28)
    ELSE IF m \in {4, 6, 9, 11} THEN 30 ELSE 31

DaysBeforeYear(y) ==
    (y - 1) * 365 + ((y - 1) \div 4) - ((y - 1) \div 100) + ((y - 1) \div 400)

RECURSIVE DaysBeforeMonth(_, _)
DaysBeforeMonth(y, m) ==
    IF m = 1 THEN 0 ELSE DaysBeforeMonth(y, m - 1) + DaysInMonth(y, m - 1)

\* date(y, m, d).weekday(): Monday is 0
Weekday(y, m, d) == (DaysBeforeYear(y) + DaysBeforeMonth(y, m) + d + 6) % 7

\* DayOfMonth without the wrap of a month that starts on a Monday.
DayOfMonth_NoWrap(first_weekday) == (7 - first_weekday) + 2

\* day_or_month = (7 - first_weekday) % 7 + 2
DayOfMonth(first_weekday) == ((7 - first_weekday) % 7) + 2

\* get_regular_election_date(year, election_type)
get_regular_election_date(year, election_type) ==
    LET month == IF Upper(election_type) = Str_PRIMARY THEN 6
                 ELSE IF Upper(election_type) = Str_GENERAL THEN 11
                 ELSE 0
    IN  IF year % 2 # 0 \/ month = 0
        THEN [outcome |-> "raised", year |-> 0, month |-> 0, day |-> 0]
        ELSE [outcome |-> "returned", year |-> year, month |-> month,
              day |-> DayOfMonth(Weekday(year, month, 1))]

MaxYear == 2030
Years == 2000..MaxYear

PrimaryForms == {Str_PRIMARY, <<"p", "r", "i", "m", "a", "r", "y">>,
                 <<"P", "r", "i", "m", "a", "r", "y">>}
GeneralForms == {Str_GENERAL, <<"g", "e", "n", "e", "r", "a", "l">>,
                 <<"G", "e", "n", "e", "r", "a", "l">>}
OtherForms == {<<>>, <<"S", "P", "E", "C", "I", "A", "L">>,
               <<"P", "R", "I", "M", "A", "R", "Y", " ">>}

GetRegularElectionDate ==
    /\ ncalls < MaxCalls
    /\ \E year \in Years, election_type \in PrimaryForms \cup GeneralForms \cup OtherForms :
         LET out == get_regular_election_date(year, election_type)
         IN  last' = [op |-> "get_regular_election_date", year |-> year,
                      election_type |-> election_type, outcome |-> out.outcome,
                      date |-> [year |-> out.year, month |-> out.month, day |-> out.day]]
    /\ pre' = pre
    /\ ncalls' = ncalls + 1
    /\ UNCHANGED <<persons, candidacies, nextId, orgs, filerTypes, corrections>>
    /\ UNCHANGED <<rawVersions, processedVersions>>
    /\ UNCHANGED <<cache, requests, force_download, update_cache>>

InitDates ==
    /\ persons = {}
    /\ candidacies = {}
    /\ nextId = 1
    /\ orgs = {}
    /\ filerTypes = {}
    /\ corrections = <<>>
    /\ last = NoCall
    /\ pre = [none |-> TRUE]
    /\ ncalls = 0
    /\ rawVersions = {}
    /\ processedVersions = {}
    /\ cache = {}
    /\ requests = <<>>
    /\ force_download = FALSE
    /\ update_cache = TRUE

NextDates == FirstCall /\ GetRegularElectionDate
SpecDates == InitDates /\ [][NextDates]_vars

\* ---------------------------------------------------------------- versions

MaxRawVersions == 2

\* RawDataVersion.objects.latest('release_datetime'): the rows the query can
\* give back.  No row at all is DoesNotExist; rows released at the same time
\* are told apart by nothing the query orders by.
LatestRawVersions_Any(raws) == raws
LatestRawVersions(raws) ==
    {r \in raws : \A o \in raws : o.release_datetime <= r.release_datetime}

ProcessedOf(pvs, raw_id) == {p \in pvs : p.raw_version = raw_id}

\* ProcessedDataVersion.objects.get_or_create(raw_version=raw).
GetOrCreateVersion(pvs, id, raw) ==
    LET found == ProcessedOf(pvs, raw.id)
    IN  IF Cardinality(found) > 1
        THEN {[processed |-> pvs, outcome |-> "MultipleObjectsReturned",
               result |-> None, created |-> FALSE]}
        ELSE IF found = {}
        THEN {[processed |-> pvs \cup {[id |-> id, raw_version |-> raw.id]},
               outcome |-> "returned", result |-> id, created |-> TRUE]}
        ELSE {[processed |-> pvs, outcome |-> "returned", result |-> p.id,
               created |-> FALSE] : p \in found}

CommandErrorRaised(pvs) ==
    [processed |-> pvs, outcome |-> "CommandError", result |-> None,
     created |-> FALSE]

get_or_create_processed_version(raws, pvs, id) ==
    IF raws = {}
    THEN {CommandErrorRaised(pvs)}
    ELSE UNION {IF latest_raw_version.update_stalled
                THEN {CommandErrorRaised(pvs)}
                ELSE GetOrCreateVersion(pvs, id, latest_raw_version) :
                latest_raw_version \in LatestRawVersions(raws)}

GetOrCreateProcessedVersion ==
    /\ ncalls < MaxCalls
    /\ \E out \in get_or_create_processed_version(rawVersions, processedVersions,
                                                  nextId) :
         /\ processedVersions' = out.processed
         /\ nextId' = IF out.created THEN nextId + 1 ELSE nextId
         /\ last' = [op |-> "get_or_create_processed_version",
                     outcome |-> out.outcome, result |-> out.result,
                     created |-> out.created]
         /\ pre' = [processedVersions |-> processedVersions]
         /\ ncalls' = ncalls + 1
         /\ UNCHANGED <<persons, candidacies, orgs, filerTypes, corrections>>
         /\ UNCHANGED <<rawVersions, cache, requests, force_download, update_cache>>

\* The raw versions loaded so far, each processed at most once: raw_version is
\* what get_or_create looks a ProcessedDataVersion up by.
InitVersions ==
    \E n \in 0..MaxRawVersions :
    \E released \in [1..n -> Dates], stalled \in [1..n -> BOOLEAN] :
    \E done \in SUBSET (1..n) :
        /\ rawVersions = {[id |-> i, release_datetime |-> released[i],
                           update_stalled |-> stalled[i]] : i \in 1..n}
        /\ processedVersions = {[id |-> n + i, raw_version |-> i] : i \in done}
        /\ nextId = (2 * n) + 1
        /\ persons = {}
        /\ candidacies = {}
        /\ orgs = {}
        /\ filerTypes = {}
        /\ corrections = <<>>
        /\ cache = {}
        /\ requests = <<>>
        /\ force_download = FALSE
        /\ update_cache = TRUE
        /\ last = NoCall
        /\ pre = [processedVersions |-> {}]
        /\ ncalls = 0

NextVersions == GetOrCreateProcessedVersion
SpecVersions == InitVersions /\ [][NextVersions]_vars

\* ----------------------------------------------------------------- scraper

MaxSize == 2
Sizes == 1..MaxSize

Url_A == <<"a">>
Url_SlashA == <<"/", "a", "/">>
Url_B == <<"b">>
Urls == {Url_A, Url_SlashA, Url_B}

RECURSIVE LStripSlash(_)
LStripSlash(s) == IF Len(s) > 0 /\ s[1] = "/" THEN LStripSlash(Tail(s)) ELSE s

RECURSIVE RStripSlash(_)
RStripSlash(s) ==
    IF Len(s) > 0 /\ s[Len(s)] = "/"
    THEN RStripSlash(SubSeq(s, 1, Len(s) - 1)) ELSE s

\* urljoin(self.base_url, url): the path under the root of base_url.
full_url(url) == LStripSlash(url)

\* os.path.join(self.cache_dir, url2pathname(url.strip("/"))): the path
\* under cache_dir.
cache_path(url) == RStripSlash(LStripSlash(url))

CachePaths == {cache_path(u) : u \in Urls}

\* get_url: one request of the type asked for is made (the retry decorator
\* makes the same request again when it fails); the site answers with a page
\* of some size, or the request raises.
get_url(log, url, request_type) ==
    LET made == Append(log, [type |-> request_type, url |-> url])
    IN  {[requests |-> made, outcome |-> "response", size |-> z] : z \in Sizes}
        \cup {[requests |-> made, outcome |-> e, size |-> 0] :
              e \in {"HTTPError", "ConnectionError"}}

Exists(files, path) == \E f \in files : f.path = path
GetSize(files, path) == (CHOOSE f \in files : f.path = path).size

ReturnCached(files, log, path) ==
    [cache |-> files, requests |-> log, outcome |-> "returned",
     result |-> [from |-> "cache", size |-> GetSize(files, path)]]

HtmlRaised(files, log, e) ==
    [cache |-> files, requests |-> log, outcome |-> e, result |-> None]

\* "Otherwise, retrieve the full page and cache it."
Retrieve(files, log, url) ==
    LET path == cache_path(url)
    IN  {IF response.outcome = "HTTPError"
         THEN IF Exists(files, path)
              THEN ReturnCached(files, response.requests, path)
              ELSE HtmlRaised(files, response.requests, "HTTPError")
         ELSE IF response.outcome # "response"
         THEN HtmlRaised(files, response.requests, response.outcome)
         ELSE [cache |-> {f \in files : f.path # path}
                           \cup {[path |-> path, size |-> response.size]},
               requests |-> response.requests, outcome |-> "returned",
               result |-> [from |-> "web", size |-> response.size]] :
         response \in get_url(log, full_url(url), "GET")}

get_html(files, log, force, update, url) ==
    LET path == cache_path(url)
    IN  IF Exists(files, path) /\ ~force
        THEN IF update
             THEN UNION {IF head.outcome # "response"
                         THEN {HtmlRaised(files, head.requests, head.outcome)}
                         ELSE IF GetSize(files, path) = head.size
                         THEN {ReturnCached(files, head.requests, path)}
                         ELSE Retrieve(files, head.requests, url) :
                         head \in get_url(log, full_url(url), "HEAD")}
             ELSE {ReturnCached(files, log, path)}
        ELSE Retrieve(files, log, url)

GetHtml ==
    /\ ncalls < MaxCalls
    /\ \E url \in Urls :
       \E out \in get_html(cache, requests, force_download, update_cache, url) :
         /\ cache' = out.cache
         /\ requests' = out.requests
         /\ last' = [op |-> "get_html", url |-> url, outcome |-> out.outcome,
                     result |-> out.result]
         /\ pre' = [cache |-> cache, requests |-> requests]
         /\ ncalls' = ncalls + 1
         /\ UNCHANGED <<persons, candidacies, nextId, orgs, filerTypes, corrections>>
         /\ UNCHANGED <<rawVersions, processedVersions, force_download, update_cache>>

\* handle() has read the options; the cache directory holds the pages of
\* earlier runs.
InitScraper ==
    \E cached \in SUBSET CachePaths : \E size \in [cached -> Sizes] :
        /\ cache = {[path |-> c, size |-> size[c]] : c \in cached}
        /\ requests = <<>>
        /\ force_download \in BOOLEAN
        /\ update_cache \in BOOLEAN
        /\ persons = {}
        /\ candidacies = {}
        /\ nextId = 1
        /\ orgs = {}
        /\ filerTypes = {}
        /\ corrections = <<>>
        /\ rawVersions = {}
        /\ processedVersions = {}
        /\ last = NoCall
        /\ pre = [cache |-> {}, requests |-> <<>>]
        /\ ncalls = 0

NextScraper == GetHtml
SpecScraper == InitScraper /\ [][NextScraper]_vars

\* ------------------------------------------------------------------ claims

Ids(rows) == {r.id : r \in rows}

\* All PersonIdentifier rows of the table.
TotalIdentifiers(ps) ==
    SumOver([id \in Ids(ps) |-> IdentCount(PersonById(ps, id))], Ids(ps))

\* C1: after merge_persons(filer_id) returns from a store in which two or more
\* Persons carried the filer_id, exactly one Person carries it: the survivor
\* the call returned.  The code leaves the Persons whose name or sort_name
\* differs from the survivor's unmerged.
C1_OneCarrierAfterMerge ==
    (/\ last.op = "merge_persons"
     /\ last.outcome = "returned"
     /\ Cardinality(PersonsWithFiler(pre.persons, last.filer_id)) >= 2)
    => Ids(PersonsWithFiler(persons, last.filer_id)) = {last.result}

\* C2: get_or_create_person(name, filer_id) with a filer_id some Person already
\* carries: a call that returns gives back one of the Persons that carried it,
\* with created = False, and neither the Persons nor the identifiers grow,
\* whatever the name; and when one Person carries it the call returns that
\* Person and leaves the store as it was.
C2_ExistingPersonReturned ==
    (/\ last.op = "get_or_create_person"
     /\ Truthy(last.filer_id)
     /\ PersonsWithFiler(pre.persons, last.filer_id) # {})
    => /\ last.outcome = "returned" =>
            /\ last.created = FALSE
            /\ last.result \in Ids(PersonsWithFiler(pre.persons, last.filer_id))
            /\ last.result \in Ids(persons)
            /\ Ids(persons) \subseteq Ids(pre.persons)
            /\ TotalIdentifiers(persons) <= TotalIdentifiers(pre.persons)
       /\ Cardinality(PersonsWithFiler(pre.persons, last.filer_id)) = 1 =>
            /\ last.outcome = "returned"
            /\ Ids(persons) = Ids(pre.persons)
            /\ FilerRows(pre.persons, last.filer_id) = 1 => persons = pre.persons

\* C2's case: the filer_id was carried by one Person, whose sort_name is not
\* the name given, and the call returned.
C2_Witness ==
    /\ last.op = "get_or_create_person"
    /\ Truthy(last.filer_id)
    /\ last.outcome = "returned"
    /\ \E p \in pre.persons :
         /\ PersonsWithFiler(pre.persons, last.filer_id) = {p}
         /\ p.sort_name # last.name
         /\ last.result = p.id

\* C3: get_or_create_person without a filer_id (None or '') always returns, with
\* created = True, having added exactly one Person, with sort_name = name and no
\* identifier, even when a Person of that sort_name exists; with a filer_id no
\* Person carries, the one Person added carries exactly that filer_id.
C3_CreatesOnePerson ==
    (/\ last.op = "get_or_create_person"
     /\ \/ ~Truthy(last.filer_id)
        \/ PersonsWithFiler(pre.persons, last.filer_id) = {})
    => /\ last.outcome = "returned"
       /\ last.created = TRUE
       /\ last.result \notin Ids(pre.persons)
       /\ candidacies = pre.candidacies
       /\ \E new \in persons :
            /\ new.id = last.result
            /\ persons = pre.persons \cup {new}
            /\ new.sort_name = last.name
            /\ new.identifiers =
                 IF Truthy(last.filer_id)
                 THEN [k \in IdentKeys |->
                          IF k = <<"calaccess_filer_id", last.filer_id>> THEN 1 ELSE 0]
                 ELSE [k \in IdentKeys |-> 0]

\* C3's case: no filer_id, and a Person of the same sort_name was there already.
C3_Witness ==
    /\ last.op = "get_or_create_person"
    /\ ~Truthy(last.filer_id)
    /\ last.created = TRUE
    /\ \E p \in pre.persons : p.sort_name = last.name
    /\ Cardinality(persons) = Cardinality(pre.persons) + 1

\* C4: get_or_create_candidacy with neither a filer_id (None or '') nor a
\* person_name ('') raises, and creates no Person and no Candidacy.  The code
\* looks up the empty sort_name and creates both.
C4_RaisesWithoutFilerAndName ==
    (/\ last.op = "get_or_create_candidacy"
     /\ ~Truthy(last.filer_id)
     /\ last.name = Str_Empty)
    => /\ last.outcome = "raised"
       /\ persons = pre.persons
       /\ candidacies = pre.candidacies

\* C5: get_or_create_candidacy with a filer_id carried by one Person who has a
\* Candidacy for the contest's post: a call that returns gives back a Candidacy
\* that was there, with created = False, and adds none, whatever person_name is.
\* The code looks the Candidacy up by candidate_name too, and adds a second one
\* for the same Person when the name differs.
C5_ExistingCandidacyReturned ==
    (/\ last.op = "get_or_create_candidacy"
     /\ Truthy(last.filer_id)
     /\ last.outcome = "returned"
     /\ \E p \in pre.persons :
          /\ PersonsWithFiler(pre.persons, last.filer_id) = {p}
          /\ Cardinality({c \in pre.candidacies :
                             c.person = p.id /\ c.post = FirstPost}) = 1)
    => /\ last.created = FALSE
       /\ last.result \in Ids(pre.candidacies)
       /\ Ids(candidacies) = Ids(pre.candidacies)

\* The created flag of a call of get_or_create_candidacy that returned says
\* whether the call added a Candidacy.
CreatedFlagRight ==
    (last.op = "get_or_create_candidacy" /\ last.outcome = "returned")
    => /\ last.created = TRUE  <=>
            (/\ last.result \notin Ids(pre.candidacies)
             /\ Ids(candidacies) = Ids(pre.candidacies) \cup {last.result})
       /\ last.created = FALSE <=> Ids(candidacies) = Ids(pre.candidacies)

\* Two calls of get_or_create_candidacy in a row with the same arguments, both
\* returning: the same Candidacy, and created = False the second time.
SecondCallFinds ==
    (/\ last.op = "get_or_create_candidacy"
     /\ last.outcome = "returned"
     /\ last'.op = "get_or_create_candidacy"
     /\ last'.outcome = "returned"
     /\ last'.name = last.name
     /\ last'.status = last.status
     /\ last'.filer_id = last.filer_id)
    => (last'.result = last.result /\ last'.created = FALSE)

\* C6: for every call of get_or_create_candidacy that returns, created is True
\* exactly when the call added one Candidacy and False exactly when the
\* Candidacies are unchanged; and a second call in a row with the same
\* arguments returns the same Candidacy with created = False.  The second
\* half fails where two Persons of different names share the filer_id (C1):
\* the unordered query may make either the survivor.
C6_CreatedFlagAndIdempotence ==
    [](CreatedFlagRight) /\ [][SecondCallFinds]_vars

OrgById(os, id) == CHOOSE o \in os : o.id = id

\* C7: lookup_party(party) returns a party Organization whose name or alternate
\* name is the argument, or, when no party Organization has it, the one named
\* UNKNOWN; it returns no other Organization, and it does not raise for a name
\* no party has.  The code searches the alternate names of every Organization,
\* so a body that is no party is returned for its alternate name.
C7_LookupPartyReturnsParty ==
    last.op = "lookup_party" =>
        LET matching == {o \in orgs : /\ o.classification = "party"
                                      /\ (o.name = last.party \/ last.party \in o.other_names)}
        IN  /\ last.outcome = "returned" =>
                 \/ last.result \in Ids(matching)
                 \/ matching = {} /\ OrgById(orgs, last.result).name = "UNKNOWN"
            /\ matching = {} => last.outcome = "returned"

\* The rows of the filer effective on or before the election date, and the
\* latest of them, as the claim C8 names them.
C8_Effective ==
    {r \in filerTypes : r.filer_id = last.filer_id /\ r.effect_dt <= last.election_date}

C8_LatestRows == {r \in C8_Effective : \A q \in C8_Effective : q.effect_dt <= r.effect_dt}

\* The Organization the claim C8 promises for party code cd: the one carrying the
\* identifier, or UNKNOWN when none carries it.
C8_Promised(cd, result) ==
    IF \E o \in orgs : cd \in o.identifiers
    THEN cd \in OrgById(orgs, result).identifiers
    ELSE OrgById(orgs, result).name = "UNKNOWN"

C9_Matching ==
    {k \in 1..Len(corrections) :
        /\ corrections[k][1] = last.candidate_name
        /\ corrections[k][2] = last.year
        /\ corrections[k][3] = last.election_type
        /\ corrections[k][4] = last.office}

\* C9: lookup_candidate_party_correction returns the party of the one entry
\* whose first four fields are the four arguments, None when no entry matches,
\* and raises when more than one matches, the same party or not.
C9_OneCorrectionOrNone ==
    last.op = "lookup_candidate_party_correction" =>
        /\ Cardinality(C9_Matching) = 1 =>
             /\ last.outcome = "returned"
             /\ \E k \in C9_Matching : last.party = corrections[k][5]
        /\ C9_Matching = {} => (last.outcome = "returned" /\ last.party = "None")
        /\ Cardinality(C9_Matching) > 1 => last.outcome = "raised"

\* C9's case: two entries match and name the same party, and the call raised.
C9_Witness ==
    /\ last.op = "lookup_candidate_party_correction"
    /\ last.outcome = "raised"
    /\ \E j \in C9_Matching, k \in C9_Matching :
         j # k /\ corrections[j][5] = corrections[k][5]

\* C10: get_regular_election_date(year, election_type) of an even year returns,
\* for 'PRIMARY' in any case of letters a day of June and for 'GENERAL' a day of
\* November, which is in 2..8, is a Tuesday, and follows the first Monday of
\* the month; it raises for an odd year and for any other election_type.
C10_FirstTuesdayAfterFirstMonday ==
    last.op = "get_regular_election_date" =>
        LET known == last.election_type \in PrimaryForms \cup GeneralForms
            d == last.date
        IN  IF last.year % 2 = 1 \/ ~known
            THEN last.outcome = "raised"
            ELSE /\ last.outcome = "returned"
                 /\ d.year = last.year
                 /\ d.month = IF last.election_type \in PrimaryForms THEN 6 ELSE 11
                 /\ d.day \in 2..8
                 /\ Weekday(d.year, d.month, d.day) = 1
                 /\ Weekday(d.year, d.month, d.day - 1) = 0
                 /\ \A e \in 1..(d.day - 2) : Weekday(d.year, d.month, e) # 0

\* C10's case: the 1st of the month is itself a Tuesday, and the 8th is returned
\* for an election type given in lower case.
C10_Witness ==
    /\ last.op = "get_regular_election_date"
    /\ last.outcome = "returned"
    /\ last.election_type # Upper(last.election_type)
    /\ Weekday(last.year, last.date.month, 1) = 1
    /\ last.date.day = 8

\* C11: get_or_create_processed_version raises CommandError and creates no
\* ProcessedDataVersion when there is no RawDataVersion or when the one with
\* the latest release_datetime has update_stalled set; otherwise it returns
\* the ProcessedDataVersion of that latest raw version, created only if there
\* was none, and every raw version keeps at most one ProcessedDataVersion.
C11_Stopped ==
    /\ last.outcome = "CommandError"
    /\ processedVersions = pre.processedVersions

C11_ReturnedFor(r) ==
    LET had == {p \in pre.processedVersions : p.raw_version = r.id}
    IN  /\ last.outcome = "returned"
        /\ last.created = (had = {})
        /\ \E p \in processedVersions :
               p.id = last.result /\ p.raw_version = r.id
        /\ IF had = {}
           THEN /\ last.result \notin Ids(pre.processedVersions)
                /\ processedVersions = pre.processedVersions \cup
                       {[id |-> last.result, raw_version |-> r.id]}
           ELSE processedVersions = pre.processedVersions

C11_OnePerRawVersion ==
    \A r \in rawVersions :
        Cardinality({p \in processedVersions : p.raw_version = r.id}) <= 1

C11_ProcessedVersionOfLatest ==
    last.op = "get_or_create_processed_version" =>
        /\ IF rawVersions = {}
           THEN C11_Stopped
           ELSE \E r \in rawVersions :
                   /\ \A o \in rawVersions :
                          o.release_datetime <= r.release_datetime
                   /\ IF r.update_stalled THEN C11_Stopped
                                          ELSE C11_ReturnedFor(r)
        /\ C11_OnePerRawVersion

\* A version is created for the latest raw version while an earlier raw
\* version, never processed, is stalled.
C11_Witness ==
    /\ last.op = "get_or_create_processed_version"
    /\ last.outcome = "returned"
    /\ last.created
    /\ \E r, o \in rawVersions :
          /\ o.update_stalled
          /\ o.release_datetime < r.release_datetime
          /\ [id |-> last.result, raw_version |-> r.id] \in processedVersions
          /\ \A p \in processedVersions : p.raw_version # o.id

\* C12: with --cache-only (update_cache False) get_html makes no HTTP request,
\* neither HEAD nor GET, for any URL, whether or not a file is cached for it.
\* The code makes the GET whenever no file is cached for the URL (and whenever
\* force_download is set).
C12_CacheOnlyMakesNoRequest ==
    (last.op = "get_html" /\ ~update_cache) => requests = pre.requests

\* C13: from a store with no Persons, after any sequence of
\* get_or_create_person and get_or_create_candidacy calls at most one Person
\* carries any calaccess_filer_id, once, so the lookup by filer_id never finds
\* several rows and the merge_persons branch is never taken.
C13_OnePersonPerFilerId ==
    /\ \A f \in FilerIds :
          /\ Cardinality(PersonsWithFiler(persons, f)) <= 1
          /\ FilerRows(persons, f) <= 1
    /\ (last.op \in {"get_or_create_person", "get_or_create_candidacy"}
          /\ last.filer_id \in FilerIds)
       => FilerRows(pre.persons, last.filer_id) <= 1

\* The second call names a filer_id a Person already carries, under another
\* name: that Person is returned and the table is as it was.
C13_Witness ==
    /\ last.op = "get_or_create_person"
    /\ last.filer_id \in FilerIds
    /\ last.outcome = "returned"
    /\ ~last.created
    /\ persons = pre.persons
    /\ \E p \in pre.persons :
          /\ p.id = last.result
          /\ p.identifiers[FilerKey(last.filer_id)] = 1
          /\ p.sort_name # last.name
    /\ \E q \in persons : q.id # last.result /\ q.identifiers # NoIdentifiers

====
